---- MODULE Spec2Model ----
(***************************************************************************)
(* Model of the game-listing REST backend (src/index.js) and its mail      *)
(* helper (src/utils/sendEmail.js).                                        *)
(*                                                                         *)
(* The four MongoDB collections are sequences of documents in insertion    *)
(* order.  Every request is a record in the sequence reqs, in arrival      *)
(* order; a handler advances between its awaits, so each awaited store or  *)
(* network operation is one atomic step and steps of different requests    *)
(* interleave freely.                                                      *)
(*                                                                         *)
(* Conventions: a JavaScript string with character structure (title,       *)
(* category, object id) is a tuple of one-character strings and <<>> is    *)
(* the absent or empty (falsy) value; a string used only as a whole        *)
(* (email, ad field, url) is a TLA+ string and "" is the absent or empty   *)
(* (falsy) value.  A document is a record whose DOMAIN is the set of       *)
(* fields it has.  new Date() is the arrival number of the request.        *)
(***************************************************************************)
EXTENDS Integers, Sequences, FiniteSets, TLC

VARIABLES
    gameData,      \* gameDataCollection
    userData,      \* userDataCollection
    adsData,       \* adsDataCollection
    subscriber,    \* subscriberCollection
    nextOid,       \* counter of the driver's ObjectId generator
    reqs           \* the requests received so far, with each handler's position

vars == <<gameData, userData, adsData, subscriber, nextOid, reqs>>

\* ---------------------------------------------------------------- bounds
MaxReqs == 3        \* requests received in one behaviour
MaxInFlight == 2    \* requests being handled at the same time
MaxFiles == 2       \* files in one multipart batch

\* ---------------------------------------------------------------- strings
\* String.prototype.toLowerCase on one character (the "i" option of $regex)
Lower(c) == CASE c = "A" -> "a" [] c = "B" -> "b" [] OTHER -> c

LowerStr(s) == [i \in 1..Len(s) |-> Lower(s[i])]

\* ---------------------------------------------------------------- object ids
OidLen == 24
HexDigits == <<"0", "1", "2", "3", "4", "5", "6", "7", "8", "9",
               "a", "b", "c", "d", "e", "f">>

IsHex(c) == Lower(c) \in {HexDigits[k] : k \in 1..Len(HexDigits)}

HexVal(c) == CHOOSE k \in 0..15 : HexDigits[k + 1] = c

\* ObjectId.isValid on a route parameter: a string of 24 hexadecimal digits
ObjectIdIsValid(id) == Len(id) = OidLen /\ \A i \in 1..Len(id) : IsHex(id[i])

\* new ObjectId(id): the twelve bytes, i.e. the digits without their case
NewObjectId(id) == LowerStr(id)

\* the n-th identifier the driver generates (increasing with n)
GenOid(n) == [i \in 1..OidLen |-> IF i < OidLen THEN "0" ELSE HexDigits[n + 1]]

\* byte order of two object ids, which sort({_id: -1}) uses
OidLess(a, b) ==
    \E i \in 1..OidLen :
        /\ HexVal(a[i]) < HexVal(b[i])
        /\ \A j \in 1..(i - 1) : a[j] = b[j]

\* ---------------------------------------------------------------- collections
Range(s) == {s[i] : i \in 1..Len(s)}

RECURSIVE FilterSeq(_, _)
\* find(filter).toArray(): the matching documents in natural order
FilterSeq(s, keep) ==
    IF s = <<>> THEN <<>>
    ELSE IF s[1] \in keep THEN <<s[1]>> \o FilterSeq(Tail(s), keep)
    ELSE FilterSeq(Tail(s), keep)

\* findOne({email}): the first document with that email, or the empty list
FindOneByEmail(coll, email) ==
    LET hits == FilterSeq(coll, {d \in Range(coll) : d.email = email})
    IN  IF hits = <<>> THEN <<>> ELSE <<hits[1]>>

\* findOne({_id}) as a list of zero or one document
FindOneById(coll, oid) ==
    LET hits == FilterSeq(coll, {d \in Range(coll) : d._id = oid})
    IN  IF hits = <<>> THEN <<>> ELSE <<hits[1]>>

\* ---------------------------------------------------------------- requests
InFlight == Cardinality({r \in 1..Len(reqs) : reqs[r].pc # "done"})

CanArrive(limit) == Len(reqs) < MaxReqs /\ InFlight < limit

Respond1(q, r, code) == [q EXCEPT ![r].pc = "done", ![r].status = code]

\* the catch block of a handler whose awaited store operation rejected
Fail(q, r) == [q EXCEPT ![r].pc = "done", ![r].status = 500, ![r].failed = TRUE]

At(r, kind, pc) == reqs[r].kind = kind /\ reqs[r].pc = pc

Init ==
    /\ gameData = <<>>
    /\ userData = <<>>
    /\ adsData = <<>>
    /\ subscriber = <<>>
    /\ nextOid = 1
    /\ reqs = <<>>

\* ---------------------------------------------------------------- POST /subscribe
Emails == {"", "e1", "e2"}

SubscribeArrive(email) ==
    /\ CanArrive(MaxInFlight)
    /\ reqs' = Append(reqs,
          [kind |-> "subscribe", email |-> email, ops |-> 0,
           pc |-> IF email = "" THEN "done" ELSE "findOne",
           status |-> IF email = "" THEN 400 ELSE 0])
    /\ UNCHANGED <<gameData, userData, adsData, subscriber, nextOid>>

SubscribeFindOne(r, ok) ==
    /\ At(r, "subscribe", "findOne")
    /\ LET existing == FindOneByEmail(subscriber, reqs[r].email)
           q == [reqs EXCEPT ![r].ops = @ + 1]
       IN  reqs' = IF ~ok THEN Respond1(q, r, 500)
                   ELSE IF existing # <<>> THEN Respond1(q, r, 400)
                   ELSE [q EXCEPT ![r].pc = "insertOne"]
    /\ UNCHANGED <<gameData, userData, adsData, subscriber, nextOid>>

SubscribeInsertOne(r, ok) ==
    /\ At(r, "subscribe", "insertOne")
    /\ LET q == [reqs EXCEPT ![r].ops = @ + 1]
           newSub == [_id |-> GenOid(nextOid), email |-> reqs[r].email,
                      subscribedAt |-> r]
       IN  IF ok
           THEN /\ subscriber' = Append(subscriber, newSub)
                /\ nextOid' = nextOid + 1
                /\ reqs' = Respond1(q, r, 201)
           ELSE /\ reqs' = Respond1(q, r, 500)
                /\ UNCHANGED <<subscriber, nextOid>>
    /\ UNCHANGED <<gameData, userData, adsData>>

NextSubscribe ==
    \/ \E e \in Emails : SubscribeArrive(e)
    \/ \E r \in 1..Len(reqs), ok \in BOOLEAN : SubscribeFindOne(r, ok)
    \/ \E r \in 1..Len(reqs), ok \in BOOLEAN : SubscribeInsertOne(r, ok)

\* POST /subscribe alone, requests interleaving
SpecSubscribe == Init /\ [][NextSubscribe]_vars

\* C1: in every reachable state of the subscriber collection, whatever the
\* interleaving of POST /subscribe requests, at most one Subscriber document
\* exists per email address.
C1_AtMostOneSubscriberPerEmail ==
    \A i, j \in 1..Len(subscriber) :
        subscriber[i].email = subscriber[j].email => i = j

\* ---------------------------------------------------------------- POST /users
UsersArrive(limit, email) ==
    /\ CanArrive(limit)
    /\ reqs' = Append(reqs,
          [kind |-> "users", name |-> "n", email |-> email, ops |-> 0,
           respId |-> <<>>,
           pc |-> IF email = "" THEN "done" ELSE "findOne",
           status |-> IF email = "" THEN 400 ELSE 0])
    /\ UNCHANGED <<gameData, userData, adsData, subscriber, nextOid>>

\* ExistingUser with a lookup that never finds the user
ExistingUserMut(coll, email) == <<>>

\* existingUser: the result of findOne({ email }) on the user collection
ExistingUser(coll, email) == FindOneByEmail(coll, email)

UsersFindOne(r, ok) ==
    /\ At(r, "users", "findOne")
    /\ LET existingUser == ExistingUser(userData, reqs[r].email)
           q == [reqs EXCEPT ![r].ops = @ + 1]
       IN  reqs' = IF ~ok THEN Respond1(q, r, 500)
                   ELSE IF existingUser # <<>>
                   THEN Respond1([q EXCEPT ![r].respId = existingUser[1]._id], r, 200)
                   ELSE [q EXCEPT ![r].pc = "insertOne"]
    /\ UNCHANGED <<gameData, userData, adsData, subscriber, nextOid>>

UsersInsertOne(r, ok) ==
    /\ At(r, "users", "insertOne")
    /\ LET q == [reqs EXCEPT ![r].ops = @ + 1]
           newUser == [_id |-> GenOid(nextOid), name |-> reqs[r].name,
                       email |-> reqs[r].email, createdAt |-> r]
       IN  IF ok
           THEN /\ userData' = Append(userData, newUser)
                /\ nextOid' = nextOid + 1
                /\ reqs' = Respond1([q EXCEPT ![r].respId = newUser._id], r, 200)
           ELSE /\ reqs' = Respond1(q, r, 500)
                /\ UNCHANGED <<userData, nextOid>>
    /\ UNCHANGED <<gameData, adsData, subscriber>>

NextUsersSeq ==
    \/ \E e \in Emails : UsersArrive(1, e)
    \/ \E r \in 1..Len(reqs), ok \in BOOLEAN : UsersFindOne(r, ok)
    \/ \E r \in 1..Len(reqs), ok \in BOOLEAN : UsersInsertOne(r, ok)

\* POST /users with each request answered before the next one arrives
SpecUsersSeq == Init /\ [][NextUsersSeq]_vars

UsersWith(email) == {k \in 1..Len(userData) : userData[k].email = email}

AnsweredUsers(r) == reqs[r].kind = "users" /\ reqs[r].pc = "done" /\ reqs[r].status = 200

\* C2: two POST /users requests with the same non-empty email, the first
\* answered before the second arrives, carry the same user id in their
\* responses, and exactly one user document with that email is stored.
C2_SequentialUsersSameId ==
    \A r1, r2 \in 1..Len(reqs) :
        (r1 < r2 /\ AnsweredUsers(r1) /\ AnsweredUsers(r2)
            /\ reqs[r1].email = reqs[r2].email)
        => /\ reqs[r1].respId = reqs[r2].respId
           /\ Cardinality(UsersWith(reqs[r1].email)) = 1

\* a first request that inserted and a second one that found the user
C2_Witness ==
    \E r1, r2 \in 1..Len(reqs) :
        /\ r1 < r2 /\ AnsweredUsers(r1) /\ AnsweredUsers(r2)
        /\ reqs[r1].email = reqs[r2].email
        /\ reqs[r1].ops = 2 /\ reqs[r2].ops = 1

NextUsers ==
    \/ \E e \in Emails : UsersArrive(MaxInFlight, e)
    \/ \E r \in 1..Len(reqs), ok \in BOOLEAN : UsersFindOne(r, ok)
    \/ \E r \in 1..Len(reqs), ok \in BOOLEAN : UsersInsertOne(r, ok)

\* POST /users alone, requests interleaving
SpecUsers == Init /\ [][NextUsers]_vars

\* the request r goes from its findOne on to its insertOne in this step
PassesLookup(r) == At(r, "users", "findOne") /\ reqs'[r].pc = "insertOne"

\* the request r stores a user document in this step
Inserts(r) ==
    /\ At(r, "users", "insertOne")
    /\ Len(userData') = Len(userData) + 1
    /\ userData'[Len(userData')].email = reqs[r].email

\* C11: POST /users requests whose store steps interleave can leave two User
\* documents for one email (C11_Witness), and only in the way the claim says:
\* a request inserts only after a findOne that saw no user with its email, so
\* the lookups of both inserting requests ran before either insertOne.
C11_UsersInsertOnlyAfterEmptyLookup ==
    [][/\ \A r \in 1..Len(reqs) : PassesLookup(r) => UsersWith(reqs[r].email) = {}
       /\ userData' # userData => \E r \in 1..Len(reqs) : Inserts(r)]_vars

\* two requests with one email have both inserted and both been answered 200,
\* so two User documents with that email are stored
C11_Witness ==
    \E r1, r2 \in 1..Len(reqs) :
        /\ r1 # r2 /\ AnsweredUsers(r1) /\ AnsweredUsers(r2)
        /\ reqs[r1].email = reqs[r2].email
        /\ reqs[r1].ops = 2 /\ reqs[r2].ops = 2
        /\ reqs[r1].respId # reqs[r2].respId
        /\ Cardinality(UsersWith(reqs[r1].email)) = 2

\* ---------------------------------------------------------------- POST /games
\* !doc.f for a field holding a character string
Falsy(doc, f) == f \notin DOMAIN doc \/ doc[f] = <<>>

\* NewGameDoc with the title lost on the way to the store
NewGameDocMut(body, now, oid) == [createdAt |-> now, _id |-> oid, title |-> <<>>] @@ body

\* the document insertOne stores: the body, stamped, with the generated _id
NewGameDoc(body, now, oid) == [createdAt |-> now, _id |-> oid] @@ body

\* the transport call of one sendEmail: recipient, subject and link of the mail
MailTo(req, k) ==
    [to |-> req.subscribers[k].email, title |-> req.body.title,
     link |-> req.insertedId]

PostGameArrive(body) ==
    /\ CanArrive(MaxInFlight)
    /\ reqs' = Append(reqs,
          [kind |-> "postGame", body |-> body, ops |-> 0, now |-> Len(reqs) + 1,
           failed |-> FALSE,
           insertedId |-> <<>>, loaded |-> FALSE, subscribers |-> <<>>, i |-> 0,
           mail |-> <<>>,
           pc |-> IF Falsy(body, "title") THEN "done" ELSE "insertOne",
           status |-> IF Falsy(body, "title") THEN 400 ELSE 0])
    /\ UNCHANGED <<gameData, userData, adsData, subscriber, nextOid>>

PostGameInsertOne(r, ok) ==
    /\ At(r, "postGame", "insertOne")
    /\ LET q == [reqs EXCEPT ![r].ops = @ + 1]
           game == NewGameDoc(reqs[r].body, reqs[r].now, GenOid(nextOid))
       IN  IF ok
           THEN /\ gameData' = Append(gameData, game)
                /\ nextOid' = nextOid + 1
                /\ reqs' = [q EXCEPT ![r].insertedId = game._id, ![r].pc = "find"]
           ELSE /\ reqs' = Fail(q, r)
                /\ UNCHANGED <<gameData, nextOid>>
    /\ UNCHANGED <<userData, adsData, subscriber>>

\* subscriberCollection.find({}).toArray(), then the first sendEmail call or,
\* with no subscriber, the response
PostGameFind(r, ok) ==
    /\ At(r, "postGame", "find")
    /\ LET q == [reqs EXCEPT ![r].ops = @ + 1, ![r].loaded = ok,
                             ![r].subscribers = IF ok THEN subscriber ELSE <<>>]
       IN  reqs' = IF ~ok THEN Fail(q, r)
                   ELSE IF subscriber = <<>> THEN Respond1(q, r, 201)
                   ELSE [q EXCEPT ![r].pc = "sendMail", ![r].i = 1,
                                  ![r].mail = <<[ev |-> "call", ok |-> TRUE] @@ MailTo(q[r], 1)>>]
    /\ UNCHANGED <<gameData, userData, adsData, subscriber, nextOid>>

\* FanOutNext with a loop that drops the subscriber after a failed send
FanOutNextMut(i, ok) == IF ok THEN i + 1 ELSE i + 2

\* the subscriber the loop turns to after the send to subscriber i has ended
FanOutNext(i, ok) == i + 1

\* transporter.sendMail for subscriber i resolves (ok) or rejects; sendEmail
\* logs either way and returns, and the loop goes on or the request is answered
PostGameSendMail(r, ok) ==
    /\ At(r, "postGame", "sendMail")
    /\ LET i == reqs[r].i
           n == FanOutNext(i, ok)
           q == [reqs EXCEPT ![r].mail =
                     Append(@, [ev |-> "return", ok |-> ok] @@ MailTo(reqs[r], i))]
       IN  reqs' = IF n > Len(reqs[r].subscribers) THEN Respond1(q, r, 201)
                   ELSE [q EXCEPT ![r].i = n,
                                  ![r].mail = Append(@, [ev |-> "call", ok |-> TRUE] @@ MailTo(q[r], n))]
    /\ UNCHANGED <<gameData, userData, adsData, subscriber, nextOid>>

GameBodies ==
    { [title |-> <<"A", "b">>, category |-> <<"a">>, thumbnail |-> <<"b">>],
      [category |-> <<"a">>] }

NextNotify ==
    \/ \E e \in {"e1", "e2"} : SubscribeArrive(e)
    \/ \E r \in 1..Len(reqs), ok \in BOOLEAN : SubscribeFindOne(r, ok)
    \/ \E r \in 1..Len(reqs), ok \in BOOLEAN : SubscribeInsertOne(r, ok)
    \/ \E b \in GameBodies : PostGameArrive(b)
    \/ \E r \in 1..Len(reqs), ok \in BOOLEAN : PostGameInsertOne(r, ok)
    \/ \E r \in 1..Len(reqs), ok \in BOOLEAN : PostGameFind(r, ok)
    \/ \E r \in 1..Len(reqs), ok \in BOOLEAN : PostGameSendMail(r, ok)

\* POST /subscribe and POST /games, requests interleaving
SpecNotify == Init /\ [][NextNotify]_vars

\* C3: once the game document of a POST /games request has been inserted, the
\* request is answered 201, whatever fails in the fan-out that follows.
C3_InsertedGameAnswered201 ==
    \A r \in 1..Len(reqs) :
        (reqs[r].kind = "postGame" /\ reqs[r].insertedId # <<>> /\ reqs[r].pc = "done")
        => reqs[r].status = 201

\* the transport calls and returns the claim expects for the loaded list:
\* for each subscriber in list order, one call and then its return
ExpectedMail(req) ==
    [k \in 1..(2 * Len(req.subscribers)) |->
        [ev |-> IF k % 2 = 1 THEN "call" ELSE "return"] @@ MailTo(req, (k + 1) \div 2)]

SameMail(e, x) ==
    e.ev = x.ev /\ e.to = x.to /\ e.title = x.title /\ e.link = x.link

\* C4: after a successful insert every loaded subscriber gets exactly one send
\* attempt, one at a time in list order (an attempt is called only when the
\* previous one has returned), a failed attempt neither stops the later ones
\* nor is repeated, and the request is answered 201.
C4_OneSendPerSubscriberInOrder ==
    \A r \in 1..Len(reqs) :
        (reqs[r].kind = "postGame" /\ reqs[r].loaded)
        => LET req == reqs[r]
               want == ExpectedMail(req)
           IN  /\ Len(req.mail) <= Len(want)
               /\ \A k \in 1..Len(req.mail) : SameMail(req.mail[k], want[k])
               /\ req.pc = "sendMail" => Len(req.mail) % 2 = 1
               /\ req.pc = "done" => req.status = 201 /\ Len(req.mail) = Len(want)

\* two subscribers loaded, the first send failed, the second was still made
C4_Witness ==
    \E r \in 1..Len(reqs) :
        /\ reqs[r].kind = "postGame" /\ reqs[r].loaded /\ reqs[r].pc = "done"
        /\ Len(reqs[r].subscribers) = 2
        /\ Len(reqs[r].mail) = 4
        /\ ~reqs[r].mail[2].ok

\* ---------------------------------------------------------------- :id routes
\* InvalidId without the ObjectId.isValid test
InvalidIdMut(id) == id = <<>>

\* the guard every :id handler starts with: !id || !ObjectId.isValid(id)
InvalidId(id) == id = <<>> \/ ~ObjectIdIsValid(id)

\* updateOne({_id}, {$set: upd}): the fields of upd replace or extend the document's
SetFields(doc, upd) == upd @@ doc

UpdateOneById(coll, oid, upd) ==
    [k \in 1..Len(coll) |-> IF coll[k]._id = oid THEN SetFields(coll[k], upd) ELSE coll[k]]

DeleteOneById(coll, oid) == FilterSeq(coll, {d \in Range(coll) : d._id # oid})

\* a request on kind/:id as it stands once the handler has reached its first
\* await: answered 400 on a rejected id, answered 500 when new ObjectId(id)
\* throws, otherwise waiting for its one store operation
IdRequest(kind, id, body) ==
    [kind |-> kind, id |-> id, body |-> body, ops |-> 0, resp |-> <<>>,
     failed |-> FALSE, applied |-> FALSE, answered |-> {}, touched |-> FALSE,
     pc |-> IF InvalidId(id) \/ ~ObjectIdIsValid(id) THEN "done" ELSE "store",
     status |-> IF InvalidId(id) THEN 400
                ELSE IF ~ObjectIdIsValid(id) THEN 500 ELSE 0]

\* the ids of the games whose POST has been answered 201
AnsweredGames ==
    {reqs[p].insertedId : p \in {x \in 1..Len(reqs) :
        reqs[x].kind = "postGame" /\ reqs[x].pc = "done" /\ reqs[x].status = 201}}

\* some PUT or DELETE has changed or removed the document with this id
Touched(kinds, oid) ==
    \E x \in 1..Len(reqs) :
        reqs[x].kind \in kinds /\ reqs[x].applied /\ NewObjectId(reqs[x].id) = oid

\* ---------------------------------------------------------------- GET /games/:id
GetGameArrive(id) ==
    /\ CanArrive(MaxInFlight)
    /\ reqs' = Append(reqs, [IdRequest("getGame", id, <<>>) EXCEPT !.answered = AnsweredGames])
    /\ UNCHANGED <<gameData, userData, adsData, subscriber, nextOid>>

GetGameFindOne(r, ok) ==
    /\ At(r, "getGame", "store")
    /\ LET oid == NewObjectId(reqs[r].id)
           game == FindOneById(gameData, oid)
           q == [reqs EXCEPT ![r].ops = @ + 1,
                             ![r].touched = Touched({"putGame", "deleteGame"}, oid)]
       IN  reqs' = IF ~ok THEN Fail(q, r)
                   ELSE IF game = <<>> THEN Respond1(q, r, 404)
                   ELSE Respond1([q EXCEPT ![r].resp = game], r, 200)
    /\ UNCHANGED <<gameData, userData, adsData, subscriber, nextOid>>

\* ---------------------------------------------------------------- PUT /games/:id
PutGameArrive(id, updateDoc) ==
    /\ CanArrive(MaxInFlight)
    /\ reqs' = Append(reqs, IdRequest("putGame", id, updateDoc))
    /\ UNCHANGED <<gameData, userData, adsData, subscriber, nextOid>>

PutGameUpdateOne(r, ok) ==
    /\ At(r, "putGame", "store")
    /\ LET oid == NewObjectId(reqs[r].id)
           q == [reqs EXCEPT ![r].ops = @ + 1]
       IN  IF ok
           THEN /\ gameData' = UpdateOneById(gameData, oid, reqs[r].body)
                /\ reqs' = Respond1([q EXCEPT ![r].applied =
                                        FindOneById(gameData, oid) # <<>>], r, 200)
           ELSE /\ reqs' = Fail(q, r)
                /\ UNCHANGED gameData
    /\ UNCHANGED <<userData, adsData, subscriber, nextOid>>

\* ---------------------------------------------------------------- DELETE /games/:id
DeleteGameArrive(id) ==
    /\ CanArrive(MaxInFlight)
    /\ reqs' = Append(reqs, IdRequest("deleteGame", id, <<>>))
    /\ UNCHANGED <<gameData, userData, adsData, subscriber, nextOid>>

DeleteGameDeleteOne(r, ok) ==
    /\ At(r, "deleteGame", "store")
    /\ LET oid == NewObjectId(reqs[r].id)
           deletedCount == Len(gameData) - Len(DeleteOneById(gameData, oid))
           q == [reqs EXCEPT ![r].ops = @ + 1]
       IN  IF ok
           THEN /\ gameData' = DeleteOneById(gameData, oid)
                /\ reqs' = IF deletedCount = 0 THEN Respond1(q, r, 404)
                           ELSE Respond1([q EXCEPT ![r].applied = TRUE], r, 200)
           ELSE /\ reqs' = Fail(q, r)
                /\ UNCHANGED gameData
    /\ UNCHANGED <<userData, adsData, subscriber, nextOid>>

\* ---------------------------------------------------------------- POST /ads
\* !doc.f for a field holding a plain string
Missing(doc, f) == f \notin DOMAIN doc \/ doc[f] = ""

\* the three validations of the handler, in order
AdRejected(body) ==
    \/ Missing(body, "title") \/ Missing(body, "type") \/ Missing(body, "position")
    \/ body.type = "image" /\ (Missing(body, "image") \/ Missing(body, "link"))
    \/ body.type = "code" /\ Missing(body, "content")

NewAd(body, now) ==
    LET ad == [title |-> body.title, type |-> body.type,
               position |-> body.position, createdAt |-> now]
    IN  IF body.type = "image" THEN ad @@ [image |-> body.image, link |-> body.link]
        ELSE IF body.type = "code" THEN ad @@ [content |-> body.content]
        ELSE ad

PostAdArrive(body) ==
    /\ CanArrive(MaxInFlight)
    /\ reqs' = Append(reqs,
          [kind |-> "postAd", body |-> body, ops |-> 0, now |-> Len(reqs) + 1,
           failed |-> FALSE, insertedId |-> <<>>,
           pc |-> IF AdRejected(body) THEN "done" ELSE "insertOne",
           status |-> IF AdRejected(body) THEN 400 ELSE 0])
    /\ UNCHANGED <<gameData, userData, adsData, subscriber, nextOid>>

PostAdInsertOne(r, ok) ==
    /\ At(r, "postAd", "insertOne")
    /\ LET q == [reqs EXCEPT ![r].ops = @ + 1]
           newAd == [_id |-> GenOid(nextOid)] @@ NewAd(reqs[r].body, reqs[r].now)
       IN  IF ok
           THEN /\ adsData' = Append(adsData, newAd)
                /\ nextOid' = nextOid + 1
                /\ reqs' = Respond1([q EXCEPT ![r].insertedId = newAd._id], r, 201)
           ELSE /\ reqs' = Fail(q, r)
                /\ UNCHANGED <<adsData, nextOid>>
    /\ UNCHANGED <<gameData, userData, subscriber>>

\* ---------------------------------------------------------------- GET /ads/:id
GetAdArrive(id) ==
    /\ CanArrive(MaxInFlight)
    /\ reqs' = Append(reqs, IdRequest("getAd", id, <<>>))
    /\ UNCHANGED <<gameData, userData, adsData, subscriber, nextOid>>

GetAdFindOne(r, ok) ==
    /\ At(r, "getAd", "store")
    /\ LET ad == FindOneById(adsData, NewObjectId(reqs[r].id))
           q == [reqs EXCEPT ![r].ops = @ + 1]
       IN  reqs' = IF ~ok THEN Fail(q, r)
                   ELSE IF ad = <<>> THEN Respond1(q, r, 404)
                   ELSE Respond1([q EXCEPT ![r].resp = ad], r, 200)
    /\ UNCHANGED <<gameData, userData, adsData, subscriber, nextOid>>

\* ---------------------------------------------------------------- PUT /ads/:id
PutAdArrive(id, updateData) ==
    /\ CanArrive(MaxInFlight)
    /\ reqs' = Append(reqs, IdRequest("putAd", id, updateData))
    /\ UNCHANGED <<gameData, userData, adsData, subscriber, nextOid>>

PutAdUpdateOne(r, ok) ==
    /\ At(r, "putAd", "store")
    /\ LET oid == NewObjectId(reqs[r].id)
           q == [reqs EXCEPT ![r].ops = @ + 1]
       IN  IF ok
           THEN /\ adsData' = UpdateOneById(adsData, oid, reqs[r].body)
                /\ reqs' = Respond1([q EXCEPT ![r].applied =
                                        FindOneById(adsData, oid) # <<>>], r, 200)
           ELSE /\ reqs' = Fail(q, r)
                /\ UNCHANGED adsData
    /\ UNCHANGED <<gameData, userData, subscriber, nextOid>>

\* ---------------------------------------------------------------- DELETE /ads/:id
DeleteAdArrive(id) ==
    /\ CanArrive(MaxInFlight)
    /\ reqs' = Append(reqs, IdRequest("deleteAd", id, <<>>))
    /\ UNCHANGED <<gameData, userData, adsData, subscriber, nextOid>>

DeleteAdDeleteOne(r, ok) ==
    /\ At(r, "deleteAd", "store")
    /\ LET oid == NewObjectId(reqs[r].id)
           deletedCount == Len(adsData) - Len(DeleteOneById(adsData, oid))
           q == [reqs EXCEPT ![r].ops = @ + 1]
       IN  IF ok
           THEN /\ adsData' = DeleteOneById(adsData, oid)
                /\ reqs' = IF deletedCount = 0 THEN Respond1(q, r, 404)
                           ELSE Respond1([q EXCEPT ![r].applied = TRUE], r, 200)
           ELSE /\ reqs' = Fail(q, r)
                /\ UNCHANGED adsData
    /\ UNCHANGED <<gameData, userData, subscriber, nextOid>>

\* ---------------------------------------------------------------- inputs
\* route parameters: the first generated id, a string that is too short, and
\* a string of the right length with a character that is no hexadecimal digit
ShortId == <<"1", "2", "3">>
NonHexId == [i \in 1..OidLen |-> IF i = 1 THEN "g" ELSE "0"]
IdParams == {GenOid(1), ShortId, NonHexId}

AdBodies ==
    { [title |-> "t", type |-> "image", position |-> "top", image |-> "i", link |-> "l"],
      [title |-> "t", type |-> "image", position |-> "top", image |-> "i"],
      [title |-> "t", type |-> "code", position |-> "top", content |-> "c"],
      [title |-> "t", type |-> "code", position |-> "top", content |-> ""],
      [title |-> "", type |-> "code", position |-> "top", content |-> "c"],
      [title |-> "t", type |-> "video", position |-> "top", content |-> "c"] }

AdUpdates == { [title |-> ""], [type |-> "image"], [position |-> "side"] }

GameUpdates == { [title |-> <<"a">>], [category |-> <<"b">>] }

NextAds ==
    \/ \E b \in AdBodies : PostAdArrive(b)
    \/ \E r \in 1..Len(reqs), ok \in BOOLEAN : PostAdInsertOne(r, ok)
    \/ \E id \in IdParams : GetAdArrive(id)
    \/ \E r \in 1..Len(reqs), ok \in BOOLEAN : GetAdFindOne(r, ok)
    \/ \E id \in IdParams, u \in AdUpdates : PutAdArrive(id, u)
    \/ \E r \in 1..Len(reqs), ok \in BOOLEAN : PutAdUpdateOne(r, ok)
    \/ \E id \in IdParams : DeleteAdArrive(id)
    \/ \E r \in 1..Len(reqs), ok \in BOOLEAN : DeleteAdDeleteOne(r, ok)

\* the four /ads routes, requests interleaving
SpecAds == Init /\ [][NextAds]_vars

\* C5: every stored Ad has a non-empty title, type and position, every stored
\* image Ad a non-empty image and link, every stored code Ad a non-empty content.
C5_AdsRequiredFields ==
    \A k \in 1..Len(adsData) :
        LET ad == adsData[k]
        IN  /\ ~Missing(ad, "title") /\ ~Missing(ad, "type") /\ ~Missing(ad, "position")
            /\ ad.type = "image" => ~Missing(ad, "image") /\ ~Missing(ad, "link")
            /\ ad.type = "code" => ~Missing(ad, "content")

\* ---------------------------------------------------------------- games and ads together
MaxCrudReqs == 2    \* requests received in one behaviour of SpecCrud

CrudGameBodies == { [title |-> <<"b">>], [title |-> <<"A">>, category |-> <<"a">>] }

CrudAdBodies == { [title |-> "t", type |-> "code", position |-> "top", content |-> "c"] }

NextCrud ==
    \/ Len(reqs) < MaxCrudReqs /\ \E e \in {"e1"} : SubscribeArrive(e)
    \/ \E r \in 1..Len(reqs), ok \in BOOLEAN : SubscribeFindOne(r, ok)
    \/ \E r \in 1..Len(reqs), ok \in BOOLEAN : SubscribeInsertOne(r, ok)
    \/ Len(reqs) < MaxCrudReqs /\ \E b \in CrudGameBodies : PostGameArrive(b)
    \/ \E r \in 1..Len(reqs), ok \in BOOLEAN : PostGameInsertOne(r, ok)
    \/ \E r \in 1..Len(reqs), ok \in BOOLEAN : PostGameFind(r, ok)
    \/ \E r \in 1..Len(reqs), ok \in BOOLEAN : PostGameSendMail(r, ok)
    \/ Len(reqs) < MaxCrudReqs /\ \E id \in IdParams : GetGameArrive(id)
    \/ \E r \in 1..Len(reqs), ok \in BOOLEAN : GetGameFindOne(r, ok)
    \/ Len(reqs) < MaxCrudReqs /\ \E id \in IdParams, u \in GameUpdates : PutGameArrive(id, u)
    \/ \E r \in 1..Len(reqs), ok \in BOOLEAN : PutGameUpdateOne(r, ok)
    \/ Len(reqs) < MaxCrudReqs /\ \E id \in IdParams : DeleteGameArrive(id)
    \/ \E r \in 1..Len(reqs), ok \in BOOLEAN : DeleteGameDeleteOne(r, ok)
    \/ Len(reqs) < MaxCrudReqs /\ \E b \in CrudAdBodies : PostAdArrive(b)
    \/ \E r \in 1..Len(reqs), ok \in BOOLEAN : PostAdInsertOne(r, ok)
    \/ Len(reqs) < MaxCrudReqs /\ \E id \in IdParams : GetAdArrive(id)
    \/ \E r \in 1..Len(reqs), ok \in BOOLEAN : GetAdFindOne(r, ok)
    \/ Len(reqs) < MaxCrudReqs /\ \E id \in IdParams, u \in {[title |-> "t2"]} : PutAdArrive(id, u)
    \/ \E r \in 1..Len(reqs), ok \in BOOLEAN : PutAdUpdateOne(r, ok)
    \/ Len(reqs) < MaxCrudReqs /\ \E id \in IdParams : DeleteAdArrive(id)
    \/ \E r \in 1..Len(reqs), ok \in BOOLEAN : DeleteAdDeleteOne(r, ok)

\* the :id routes of games and ads with the routes that fill the collections
SpecCrud == Init /\ [][NextCrud]_vars

IdKinds == {"getGame", "putGame", "deleteGame", "getAd", "putAd", "deleteAd"}

Malformed(req) == req.kind \in IdKinds /\ ~ObjectIdIsValid(req.id)

\* C6: a GET, PUT or DELETE on /games/:id or /ads/:id whose id is not a
\* well-formed object id is answered 400 at once, has performed no store
\* operation, and its arrival leaves all four collections unchanged.
C6_MalformedIdRejectedBeforeStore ==
    [][\A r \in 1..Len(reqs') :
          Malformed(reqs'[r])
          => /\ reqs'[r].pc = "done" /\ reqs'[r].status = 400 /\ reqs'[r].ops = 0
             /\ r > Len(reqs) => UNCHANGED <<gameData, userData, adsData, subscriber>>]_vars

\* a malformed id on a games route and one on an ads route, both answered
C6_Witness ==
    \E r1, r2 \in 1..Len(reqs) :
        /\ Malformed(reqs[r1]) /\ reqs[r1].kind \in {"getGame", "putGame", "deleteGame"}
        /\ Malformed(reqs[r2]) /\ reqs[r2].kind \in {"getAd", "putAd", "deleteAd"}
        /\ reqs[r1].status = 400 /\ reqs[r2].status = 400
        /\ reqs[r1].id # reqs[r2].id

\* a GET /games/:id that arrived after the POST of that id was answered 201 and
\* read the store, without failure, before any PUT or DELETE changed that id
ReadsBack(p, g) ==
    /\ reqs[p].kind = "postGame" /\ reqs[p].pc = "done" /\ reqs[p].status = 201
    /\ reqs[g].kind = "getGame" /\ reqs[g].pc = "done" /\ ~reqs[g].failed
    /\ ObjectIdIsValid(reqs[g].id)
    /\ NewObjectId(reqs[g].id) = reqs[p].insertedId
    /\ reqs[p].insertedId \in reqs[g].answered
    /\ ~reqs[g].touched

RECURSIVE SortByIdDesc(_)
\* sort({ _id: -1 }): the document with the greatest _id first
SortByIdDesc(s) ==
    IF s = <<>> THEN <<>>
    ELSE LET m == CHOOSE k \in 1..Len(s) :
                      \A j \in 1..Len(s) : j = k \/ OidLess(s[j]._id, s[k]._id)
         IN  <<s[m]>> \o SortByIdDesc([k \in 1..(Len(s) - 1) |->
                                          IF k < m THEN s[k] ELSE s[k + 1]])

\* the cursor of the handler: find() with no filter, newest first
SearchGamesResult(coll, title) == SortByIdDesc(coll)

\* seen is the collection as the find read it
SearchGamesArrive(title) ==
    /\ CanArrive(MaxInFlight)
    /\ reqs' = Append(reqs,
          [kind |-> "searchGames", title |-> title, ops |-> 0, failed |-> FALSE,
           seen |-> <<>>, resp |-> <<>>, pc |-> "find", status |-> 0])
    /\ UNCHANGED <<gameData, userData, adsData, subscriber, nextOid>>

SearchGamesFind(r, ok) ==
    /\ At(r, "searchGames", "find")
    /\ LET q == [reqs EXCEPT ![r].ops = @ + 1, ![r].seen = gameData]
       IN  reqs' = IF ~ok THEN Fail(q, r)
                   ELSE Respond1([q EXCEPT ![r].resp =
                           SearchGamesResult(gameData, reqs[r].title)], r, 200)
    /\ UNCHANGED <<gameData, userData, adsData, subscriber, nextOid>>

\* ---------------------------------------------------------------- GET /games/category/:category
\* one character of a pattern against one character of the subject under the
\* "i" option: "." stands for any character, a letter for itself in either case
CharMatches(p, c) == p = "." \/ Lower(p) = Lower(c)

\* { $regex: `^${category}$`, $options: "i" } for a category made of letters
\* and ".": the pattern is the route parameter as it is, not escaped
CategoryRegexMatches(category, subject) ==
    /\ Len(subject) = Len(category)
    /\ \A k \in 1..Len(category) : CharMatches(category[k], subject[k])

CategoryGames(coll, category) ==
    FilterSeq(coll, {d \in Range(coll) :
        "category" \in DOMAIN d /\ CategoryRegexMatches(category, d.category)})

GamesByCategoryArrive(category) ==
    /\ CanArrive(MaxInFlight)
    /\ reqs' = Append(reqs,
          [kind |-> "gamesByCategory", category |-> category, ops |-> 0,
           failed |-> FALSE, seen |-> <<>>, resp |-> <<>>,
           pc |-> IF category = <<>> THEN "done" ELSE "find",
           status |-> IF category = <<>> THEN 400 ELSE 0])
    /\ UNCHANGED <<gameData, userData, adsData, subscriber, nextOid>>

GamesByCategoryFind(r, ok) ==
    /\ At(r, "gamesByCategory", "find")
    /\ LET q == [reqs EXCEPT ![r].ops = @ + 1, ![r].seen = gameData]
       IN  reqs' = IF ~ok THEN Fail(q, r)
                   ELSE Respond1([q EXCEPT ![r].resp =
                           CategoryGames(gameData, reqs[r].category)], r, 200)
    /\ UNCHANGED <<gameData, userData, adsData, subscriber, nextOid>>

\* ---------------------------------------------------------------- GET /categories
\* distinct("category"): the values of the field over the documents that have it
Distinct(coll) == {d.category : d \in {x \in Range(coll) : "category" \in DOMAIN x}}

CategoriesArrive ==
    /\ CanArrive(MaxInFlight)
    /\ reqs' = Append(reqs,
          [kind |-> "categories", ops |-> 0, failed |-> FALSE, seen |-> <<>>,
           resp |-> {}, pc |-> "distinct", status |-> 0])
    /\ UNCHANGED <<gameData, userData, adsData, subscriber, nextOid>>

CategoriesDistinct(r, ok) ==
    /\ At(r, "categories", "distinct")
    /\ LET q == [reqs EXCEPT ![r].ops = @ + 1, ![r].seen = gameData]
       IN  reqs' = IF ~ok THEN Fail(q, r)
                   ELSE Respond1([q EXCEPT ![r].resp = Distinct(gameData)], r, 200)
    /\ UNCHANGED <<gameData, userData, adsData, subscriber, nextOid>>

\* ---------------------------------------------------------------- search inputs
SearchBodies ==
    { [title |-> <<"A", "b">>, category |-> <<"a">>],
      [title |-> <<"b">>, category |-> <<"A">>],
      [title |-> <<"a">>, category |-> <<"b", ".">>],
      [title |-> <<"B", "a">>] }

TitleFilters == { <<>>, <<"a">>, <<"a", "B">> }

CategoryParams == { <<"a">>, <<"B", ".">>, <<".">> }

NextSearch ==
    \/ \E e \in {"e1"} : SubscribeArrive(e)
    \/ \E r \in 1..Len(reqs), ok \in BOOLEAN : SubscribeFindOne(r, ok)
    \/ \E r \in 1..Len(reqs), ok \in BOOLEAN : SubscribeInsertOne(r, ok)
    \/ \E b \in SearchBodies : PostGameArrive(b)
    \/ \E r \in 1..Len(reqs), ok \in BOOLEAN : PostGameInsertOne(r, ok)
    \/ \E r \in 1..Len(reqs), ok \in BOOLEAN : PostGameFind(r, ok)
    \/ \E r \in 1..Len(reqs), ok \in BOOLEAN : PostGameSendMail(r, ok)
    \/ \E t \in TitleFilters : SearchGamesArrive(t)
    \/ \E r \in 1..Len(reqs), ok \in BOOLEAN : SearchGamesFind(r, ok)
    \/ \E c \in CategoryParams : GamesByCategoryArrive(c)
    \/ \E r \in 1..Len(reqs), ok \in BOOLEAN : GamesByCategoryFind(r, ok)
    \/ CategoriesArrive
    \/ \E r \in 1..Len(reqs), ok \in BOOLEAN : CategoriesDistinct(r, ok)

\* POST /games (and POST /subscribe, which feeds its fan-out) with the three
\* read routes that search the games
SpecSearch == Init /\ [][NextSearch]_vars

\* the title contains the filter as a substring when letter case is ignored
ContainsIgnoringCase(title, filter) ==
    \E o \in 0..(Len(title) - Len(filter)) :
        \A k \in 1..Len(filter) : Lower(title[o + k]) = Lower(filter[k])

IsNewestFirst(s) == \A k \in 1..(Len(s) - 1) : OidLess(s[k + 1]._id, s[k]._id)

\* C7: GET /search/games answers with exactly the games, as the find read
\* them, whose title contains the filter ignoring case (all games without a
\* filter), newest first.
C7_SearchGamesFiltersByTitle ==
    \A r \in 1..Len(reqs) :
        (reqs[r].kind = "searchGames" /\ reqs[r].pc = "done" /\ ~reqs[r].failed)
        => /\ reqs[r].status = 200
           /\ IsNewestFirst(reqs[r].resp)
           /\ Range(reqs[r].resp) =
                 {d \in Range(reqs[r].seen) :
                     reqs[r].title = <<>> \/ ContainsIgnoringCase(d.title, reqs[r].title)}

\* C10: GET /games/category/c answers with exactly the games whose category
\* is c ignoring letter case (the whole string), and GET /categories with the
\* set of distinct category values, case preserved.
C10_CategoryExactIgnoringCase ==
    \A r \in 1..Len(reqs) :
        /\ (reqs[r].kind = "gamesByCategory" /\ reqs[r].pc = "done"
               /\ reqs[r].status = 200)
           => Range(reqs[r].resp) =
                 {d \in Range(reqs[r].seen) :
                     "category" \in DOMAIN d
                     /\ LowerStr(d.category) = LowerStr(reqs[r].category)}
        /\ (reqs[r].kind = "categories" /\ reqs[r].pc = "done" /\ reqs[r].status = 200)
           => reqs[r].resp =
                 {d.category : d \in {x \in Range(reqs[r].seen) : "category" \in DOMAIN x}}

\* ---------------------------------------------------------------- POST /upload
\* req.files as multer leaves it: n files, each with its own temporary path
Batch(r, n) == [k \in 1..n |-> [path |-> <<"uploads", r, k>>]]

\* result.secure_url of an upload that succeeded
SecureUrl(file) == <<"https", file.path>>

\* UrlsAfter with a failed upload discarding the urls collected so far
UrlsAfterMut(urls, file, ok) == IF ok THEN Append(urls, SecureUrl(file)) ELSE <<>>

\* the body of the loop for one file: push on success, log and go on otherwise
UrlsAfter(urls, file, ok) == IF ok THEN Append(urls, SecureUrl(file)) ELSE urls

\* the request with the upload of its first file under way, or answered 400
UploadArrive(n) ==
    /\ CanArrive(MaxInFlight)
    /\ reqs' = Append(reqs,
          [kind |-> "upload", files |-> Batch(Len(reqs) + 1, n), urls |-> <<>>,
           k |-> 1, outcomes |-> <<>>,
           pc |-> IF n = 0 THEN "done" ELSE "upload",
           status |-> IF n = 0 THEN 400 ELSE 0])
    /\ UNCHANGED <<gameData, userData, adsData, subscriber, nextOid>>

\* cloudinary.uploader.upload of file k resolves (ok) or rejects; the finally
\* block removes the temporary file, swallowing its own errors (the file
\* system is not part of the state); then the next upload or the response
UploadFile(r, ok) ==
    /\ At(r, "upload", "upload")
    /\ LET k == reqs[r].k
           q == [reqs EXCEPT ![r].urls = UrlsAfter(@, reqs[r].files[k], ok),
                             ![r].outcomes = Append(@, ok),
                             ![r].k = k + 1]
       IN  reqs' = IF k + 1 > Len(reqs[r].files) THEN Respond1(q, r, 200) ELSE q
    /\ UNCHANGED <<gameData, userData, adsData, subscriber, nextOid>>

NextUpload ==
    \/ \E n \in 0..MaxFiles : UploadArrive(n)
    \/ \E r \in 1..Len(reqs), ok \in BOOLEAN : UploadFile(r, ok)

\* POST /upload alone, requests interleaving
SpecUpload == Init /\ [][NextUpload]_vars

RECURSIVE Uploaded(_, _)
\* the public urls of the files whose upload succeeded, in batch order
Uploaded(files, outcomes) ==
    IF outcomes = <<>> THEN <<>>
    ELSE LET n == Len(outcomes)
             before == Uploaded(files, SubSeq(outcomes, 1, n - 1))
         IN  IF outcomes[n] THEN before \o <<SecureUrl(files[n])>> ELSE before

\* C8: a POST /upload with a non-empty batch attempts every file, whatever the
\* outcome of the files before it, and is answered 200 with exactly the urls
\* of the uploads that succeeded, in batch order; it is answered 400 exactly
\* when the batch is empty.
C8_UploadPartialSuccess ==
    \A r \in 1..Len(reqs) :
        reqs[r].kind = "upload"
        => LET req == reqs[r]
           IN  /\ req.status = 400 <=> req.files = <<>>
               /\ req.status \in {0, 200, 400}
               /\ req.urls = Uploaded(req.files, req.outcomes)
               /\ req.pc = "done" /\ req.files # <<>>
                  => req.status = 200 /\ Len(req.outcomes) = Len(req.files)

\* a batch of two whose first upload failed and whose second succeeded
C8_Witness ==
    \E r \in 1..Len(reqs) :
        /\ reqs[r].kind = "upload" /\ reqs[r].pc = "done" /\ reqs[r].status = 200
        /\ Len(reqs[r].files) = 2
        /\ reqs[r].outcomes = <<FALSE, TRUE>>
        /\ reqs[r].urls = <<SecureUrl(reqs[r].files[2])>>
====
